---- MODULE Spec2Model ----
(***************************************************************************)
(* Content.js of YoutubeSpoilerHider: the matcher (containsSpoiler), the   *)
(* per-element annotator (processVideoElement), the scan over the          *)
(* enumerated containers (processAllVideoElements) and the main script     *)
(* with its three triggers (MutationObserver, yt-navigate-finish, timer).  *)
(*                                                                         *)
(* Text is a sequence of one-character strings.  The document is a page    *)
(* with the leaf video containers Items and, depending on the layout, one  *)
(* enumerated container that encloses them (a shelf, or the sidebar        *)
(* recommendations).  Only what the script's selectors can see is kept:    *)
(* per leaf container its title element and text, its thumbnail element,   *)
(* the overlays under the thumbnail and the thumbnail's computed position. *)
(***************************************************************************)
EXTENDS Integers, Sequences, FiniteSets, TLC

\* ------------------------------------------------------------------ bounds
MaxHostSteps == 1    \* host-environment events after the script was set up
MaxAdded == 2        \* most nodes one host insertion adds in a single record
MaxTextLen == 3      \* length of the texts the matcher is probed with
MaxKeywordLen == 2   \* length of the keywords the matcher is probed with

\* ------------------------------------------------------------------- text
UpperCase == <<"A","B","C","D","E","F","G","H","I","J","K","L","M",
               "N","O","P","Q","R","S","T","U","V","W","X","Y","Z">>
LowerCase == <<"a","b","c","d","e","f","g","h","i","j","k","l","m",
               "n","o","p","q","r","s","t","u","v","w","x","y","z">>

\* String.prototype.toLowerCase, one character
toLowerCaseChar(c) ==
    IF \E n \in DOMAIN UpperCase : UpperCase[n] = c
    THEN LowerCase[CHOOSE n \in DOMAIN UpperCase : UpperCase[n] = c]
    ELSE c

\* String.prototype.toLowerCase
toLowerCase(s) == [n \in 1..Len(s) |-> toLowerCaseChar(s[n])]

\* String.prototype.includes: k occurs in s at some offset
includes(s, k) ==
    \E off \in 0..(Len(s) - Len(k)) : SubSeq(s, off + 1, off + Len(k)) = k

\* the literal "Spoiler" written into a title, and compared with it
Sentinel == <<"S","p","o","i","l","e","r">>

txtFinale == <<"F","i","n","a","l","e">>
txtCat == <<"c","a","t">>
txtBlank == <<" ">>
txtEmpty == <<>>

kwFinale == <<"f","i","n","a","l","e">>
kwSPOIL == <<"S","P","O","I","L">>
kwBlank == <<" ">>

\* the title texts the host writes
TitlePool == {txtFinale, txtCat, Sentinel, txtBlank, txtEmpty}

\* the keyword lists keywords.js may hold (non-empty strings): an ordinary one,
\* and one with a keyword contained in the sentinel and a keyword of whitespace
KeywordLists == {<<kwFinale>>, <<kwFinale, kwSPOIL, kwBlank>>}

\* ------------------------------------------------------------- the state
VARIABLES
    spoilerKeywords, \* the global array of keywords.js
    layout,          \* "flat", "shelf" or "sidebar": which container encloses the items
    dom,             \* the live tree: per leaf container a record (see ItemShapes)
    pc,              \* "load", "scan" or "idle"
    handler,         \* the callback on the stack: "none", "script", "observer", "nav", "timer"
    todo,            \* the elements the running scan has still to process
    pending,         \* the observer's record queue, not yet delivered
    observing,       \* observer.observe was called
    listening,       \* the yt-navigate-finish listener is registered
    timer,           \* "unset", "armed" or "fired"
    hostSteps,       \* host events so far
    last,            \* the last processVideoElement call of the running scan
    atStart,         \* the tree when the running scan started
    hist,            \* history: what the host and the script did to the items (see NoHistory)
    hostTask,        \* a host task is running that has queued records (no microtask yet)
    probe            \* the last direct call of containsSpoiler: its text and result

vars == <<spoilerKeywords, layout, dom, pc, handler, todo, pending, observing,
          listening, timer, hostSteps, last, atStart, hist, hostTask, probe>>

\* the page holds two leaf video containers: enough for an enclosing container
\* whose title slot and thumbnail slot resolve into different items
Items == {1, 2}
Encloser == 0
Null == -1
Layouts == {"flat", "shelf", "sidebar"}
Positions == {"static", "relative", "absolute"}

NoCall == [el |-> Null, branch |-> "none", asked |-> <<>>]
\* inserted: the items the host inserted since the last scan began; retitled:
\* the items that were in the tree then, unmasked and with a title that no
\* keyword matched, and whose title the host has rewritten since; writing: the
\* items whose title the running scan has written; written: the items whose
\* present title text was written by a scan that is over; done: the elements
\* the running scan has called processVideoElement on; rewritten: the host has
\* rewritten a title since the page was loaded
NoHistory == [inserted |-> {}, retitled |-> {}, writing |-> {}, written |-> {},
              done |-> {}, rewritten |-> FALSE]
NoProbe == [called |-> FALSE, text |-> <<>>, result |-> FALSE]

\* one leaf container that is not in the tree
AbsentItem == [present |-> FALSE, hasTitle |-> FALSE, text |-> txtEmpty,
               hasThumb |-> FALSE, overlays |-> 0, position |-> "static"]

\* the shapes a leaf container can have when the host renders it
ItemShapes ==
    { [present |-> TRUE, hasTitle |-> ht, text |-> tx,
       hasThumb |-> th, overlays |-> 0, position |-> ps] :
         ht \in BOOLEAN, tx \in TitlePool, th \in BOOLEAN, ps \in {"static", "absolute"} }

NormalShapes ==
    { s \in ItemShapes : /\ (~s.hasTitle => s.text = txtEmpty)
                         /\ (~s.hasThumb => s.position = "static") }

\* --------------------------------------------------------------- the tree
\* the tag of an element: the items of a shelf are grid renderers (enumerated
\* before the shelf), the items of the sidebar are lockups (enumerated after it)
tagName(e) ==
    IF e = Encloser
    THEN (IF layout = "shelf" THEN "ytd-shelf-renderer"
          ELSE "ytd-watch-next-secondary-results-renderer")
    ELSE (IF layout = "shelf" THEN "ytd-grid-video-renderer"
          ELSE IF layout = "sidebar" THEN "yt-lockup-view-model"
          ELSE "ytd-video-renderer")

\* whether element e is in the document
inTree(d, e) == IF e = Encloser THEN layout # "flat" ELSE d[e].present

\* the leaf containers that are descendants of (or are) element e
within(d, e) ==
    IF e = Encloser THEN {i \in Items : d[i].present} ELSE {e}

\* the first of a set of leaf containers in document order, or null
first(S) == IF S = {} THEN Null ELSE CHOOSE i \in S : \A j \in S : i <= j

\* videoElement.querySelector('#video-title, ...'): the leaf container whose
\* title element is the first one under e, or null
titleElement(d, e) == first({i \in within(d, e) : d[i].hasTitle})

\* videoElement.querySelector('ytd-thumbnail, yt-thumbnail-view-model')
thumbnailContainer(d, e) == first({i \in within(d, e) : d[i].hasThumb})

\* videoElement.querySelector('.spoiler-overlay') is not null
overlayWithin(d, e) == \E i \in within(d, e) : d[i].hasThumb /\ d[i].overlays > 0

\* ------------------------------------------------------------ the matcher
\* containsSpoiler with the keyword compared as written (not lower-cased)
containsSpoilerKeywordAsWritten(text) ==
    LET lowerCaseText == toLowerCase(text)
    IN  \E n \in DOMAIN spoilerKeywords : includes(lowerCaseText, spoilerKeywords[n])

containsSpoiler(text) ==
    LET lowerCaseText == toLowerCase(text)
    IN  \E n \in DOMAIN spoilerKeywords :
            includes(lowerCaseText, toLowerCase(spoilerKeywords[n]))

\* ---------------------------------------------------------- the annotator
\* the childList records the DOM queues for the script's two writes
titleRecord == [added |-> 1, removed |-> 1]
overlayRecord == [added |-> 1, removed |-> 0]

\* the early return's test with the title compared to the lower-cased literal
alreadyProcessedLowerCaseLiteral(d, e, t) ==
    d[t].text = toLowerCase(Sentinel) /\ overlayWithin(d, e)

\* the "already processed" test of the early return
alreadyProcessed(d, e, t) == d[t].text = Sentinel /\ overlayWithin(d, e)

\* the insertion of an overlay without its guard
overlayMissingUnchecked(d, th) == TRUE

\* the test that guards the insertion of an overlay
overlayMissing(d, th) == d[th].overlays = 0

\* the title write with the lower-cased original title in the place of the
\* literal
writeTitleLowerCased(d, t) == [d EXCEPT ![t].text = toLowerCase(d[t].text)]

\* titleElement.textContent = "Spoiler"
writeTitle(d, t) == [d EXCEPT ![t].text = Sentinel]

\* the overlay appended with the position set to relative whatever it was
withOverlayAlwaysRelative(it) ==
    [it EXCEPT !.position = "relative", !.overlays = it.overlays + 1]

\* the thumbnail after the overlay was appended to it
withOverlay(it) ==
    [it EXCEPT !.position = IF it.position = "static" THEN "relative" ELSE it.position,
               !.overlays = it.overlays + 1]

\* processVideoElement(videoElement): the tree after the call, the branch taken,
\* the texts handed to containsSpoiler, the item whose title was written (or
\* null) and the mutation records queued
processVideoElement(d, e) ==
    LET t == titleElement(d, e)
    IN  IF t = Null \/ d[t].text = txtEmpty
        THEN [dom |-> d, branch |-> "no-title", asked |-> <<>>, wrote |-> Null, records |-> <<>>]
        ELSE IF alreadyProcessed(d, e, t)
        THEN [dom |-> d, branch |-> "already", asked |-> <<>>, wrote |-> Null, records |-> <<>>]
        ELSE IF ~containsSpoiler(d[t].text)
        THEN [dom |-> d, branch |-> "no-match", asked |-> <<d[t].text>>, wrote |-> Null,
              records |-> <<>>]
        ELSE LET d1 == writeTitle(d, t)
                 th == thumbnailContainer(d1, e)
             IN  IF th # Null /\ overlayMissing(d1, th)
                 THEN [dom |-> [d1 EXCEPT ![th] = withOverlay(d1[th])],
                       branch |-> "masked", asked |-> <<d[t].text>>, wrote |-> t,
                       records |-> <<titleRecord, overlayRecord>>]
                 ELSE [dom |-> d1, branch |-> "masked", asked |-> <<d[t].text>>,
                       wrote |-> t, records |-> <<titleRecord>>]

\* --------------------------------------------------------------- the scan
videoSelectors ==
    << "ytd-video-renderer", "ytd-grid-video-renderer", "ytd-compact-video-renderer",
       "ytd-rich-grid-media", "ytd-playlist-video-renderer", "ytd-shelf-renderer",
       "ytd-watch-next-secondary-results-renderer", "yt-lockup-view-model" >>

\* the elements in document order: the enclosing container before its items
docOrder == <<Encloser, 1, 2>>

\* document.querySelector(selector) in the place of querySelectorAll: the first
\* element alone
querySelectorFirstOnly(d, selector) ==
    LET all == SelectSeq(docOrder, LAMBDA e : inTree(d, e) /\ tagName(e) = selector)
    IN  IF all = <<>> THEN <<>> ELSE <<Head(all)>>

\* document.querySelectorAll(selector)
querySelectorAll(d, selector) ==
    SelectSeq(docOrder, LAMBDA e : inTree(d, e) /\ tagName(e) = selector)

RECURSIVE enumerateFrom(_, _)
enumerateFrom(d, n) ==
    IF n > Len(videoSelectors) THEN <<>>
    ELSE querySelectorAll(d, videoSelectors[n]) \o enumerateFrom(d, n + 1)

\* the elements a scan processes, in the order it processes them (no call of
\* processVideoElement adds or removes a container, so the lists the later
\* selectors return are those of the tree at the start)
enumerate(d) == enumerateFrom(d, 1)

RECURSIVE scanFrom(_, _)
scanFrom(d, els) ==
    IF els = <<>> THEN d
    ELSE scanFrom(processVideoElement(d, Head(els)).dom, Tail(els))

\* the tree after processAllVideoElements() ran on tree d
processAllVideoElements(d) == scanFrom(d, enumerate(d))

\* ------------------------------------------------------- the initial state
\* the tree of an empty page
NoTree == [i \in Items |-> AbsentItem]

\* the page as the host rendered it before the script runs: no overlay yet
Init ==
    /\ spoilerKeywords \in KeywordLists
    /\ layout \in Layouts
    /\ dom \in [Items -> NormalShapes \cup {AbsentItem}]
    /\ pc = "load"
    /\ handler = "none"
    /\ todo = <<>>
    /\ pending = <<>>
    /\ observing = FALSE
    /\ listening = FALSE
    /\ timer = "unset"
    /\ hostSteps = 0
    /\ last = NoCall
    /\ atStart = NoTree
    /\ hist = NoHistory
    /\ hostTask = FALSE
    /\ probe = NoProbe

\* ------------------------------------------------------------- the script
\* a call of processAllVideoElements() from callback h begins
beginScan(h) ==
    /\ pc' = "scan"
    /\ handler' = h
    /\ todo' = enumerate(dom)
    /\ atStart' = dom
    /\ last' = NoCall

\* the callback on the stack returns
endScan ==
    /\ pc' = "idle"
    /\ handler' = "none"
    /\ last' = NoCall
    /\ atStart' = NoTree
    /\ hist' = [hist EXCEPT !.inserted = {}, !.retitled = {}, !.writing = {},
                            !.written = @ \cup hist.writing, !.done = {}]

\* the script with observe, addEventListener and setTimeout moved before the
\* first scan
RunScriptSubscribedFirst ==
    /\ pc = "load"
    /\ beginScan("script")
    /\ observing' = TRUE
    /\ listening' = TRUE
    /\ timer' = "armed"
    /\ UNCHANGED <<spoilerKeywords, layout, dom, pending, hostSteps, hist, hostTask,
                   probe>>

\* "1. Process existing videos on page load"
RunScript ==
    /\ pc = "load"
    /\ beginScan("script")
    /\ UNCHANGED <<spoilerKeywords, layout, dom, pending, observing, listening,
                   timer, hostSteps, hist, hostTask, probe>>

\* one iteration of the forEach loops: processVideoElement on the next element
Annotate ==
    /\ pc = "scan"
    /\ todo # <<>>
    /\ LET r == processVideoElement(dom, Head(todo))
       IN  /\ dom' = r.dom
           /\ pending' = IF observing THEN pending \o r.records ELSE pending
           /\ last' = [el |-> Head(todo), branch |-> r.branch, asked |-> r.asked]
           /\ hist' = [hist EXCEPT
                         !.writing = IF r.wrote = Null THEN @ ELSE @ \cup {r.wrote},
                         !.done = @ \cup {Head(todo)}]
    /\ todo' = Tail(todo)
    /\ UNCHANGED <<spoilerKeywords, layout, pc, handler, observing, listening,
                   timer, hostSteps, atStart, hostTask, probe>>

\* the rest of the script after the first scan: observe, addEventListener, setTimeout
FinishScript ==
    /\ pc = "scan"
    /\ todo = <<>>
    /\ handler = "script"
    /\ observing' = TRUE
    /\ listening' = TRUE
    /\ timer' = "armed"
    /\ endScan
    /\ UNCHANGED <<spoilerKeywords, layout, dom, todo, pending, hostSteps, hostTask,
                   probe>>

\* the scan a callback started is over and the callback returns; the host
\* script that dispatched a navigation event runs on, the other callbacks end
\* their task
Return ==
    /\ pc = "scan"
    /\ todo = <<>>
    /\ handler # "script"
    /\ endScan
    /\ hostTask' = (handler = "nav" /\ pending # <<>>)
    /\ UNCHANGED <<spoilerKeywords, layout, dom, todo, pending, observing,
                   listening, timer, hostSteps, probe>>

\* the flag set for any record of the batch, added nodes or not
newContentAddedAnyRecord(mutations) == Len(mutations) > 0

\* the flag the observer callback computes over the records of a batch
newContentAdded(mutations) ==
    \E n \in DOMAIN mutations : mutations[n].added > 0

\* the MutationObserver callback on the queued records, a microtask at the end
\* of the task that queued them
Deliver ==
    /\ pc = "idle"
    /\ observing
    /\ pending # <<>>
    /\ pending' = <<>>
    /\ hostTask' = FALSE
    /\ IF newContentAdded(pending)
       THEN beginScan("observer")
       ELSE UNCHANGED <<pc, handler, todo, atStart, last>>
    /\ UNCHANGED <<spoilerKeywords, layout, dom, observing, listening, timer,
                   hostSteps, hist, probe>>

\* setTimeout(processAllVideoElements, 1000): a task, run after the microtasks
TimerFire ==
    /\ pc = "idle"
    /\ timer = "armed"
    /\ pending = <<>>
    /\ timer' = "fired"
    /\ beginScan("timer")
    /\ UNCHANGED <<spoilerKeywords, layout, dom, pending, observing, listening,
                   hostSteps, hist, hostTask, probe>>

\* the host dispatches 'yt-navigate-finish': the listener runs
Navigate ==
    /\ pc = "idle"
    /\ listening
    /\ pending = <<>> \/ hostTask
    /\ hostSteps < MaxHostSteps
    /\ hostSteps' = hostSteps + 1
    /\ beginScan("nav")
    /\ UNCHANGED <<spoilerKeywords, layout, dom, pending, observing, listening,
                   timer, hist, hostTask, probe>>

\* ---------------------------------------------------- the host environment
\* the host acting whether a callback of the script is running or not
hostMayDuringScan ==
    /\ observing /\ hostSteps < MaxHostSteps
    /\ pending = <<>> \/ hostTask

\* the host acts between the script's callbacks, never before the records a
\* callback queued were delivered
hostMay ==
    /\ pc = "idle" /\ observing /\ hostSteps < MaxHostSteps
    /\ pending = <<>> \/ hostTask

hostFrame ==
    /\ hostTask' = (pending' # <<>>)
    /\ UNCHANGED <<spoilerKeywords, layout, pc, handler, todo, observing,
                   listening, timer, last, atStart, probe>>

\* the host inserts leaf container i, with n - 1 sibling nodes, in one record
HostInsert(i, shape, n) ==
    /\ hostMay
    /\ ~dom[i].present
    /\ dom' = [dom EXCEPT ![i] = shape]
    /\ pending' = Append(pending, [added |-> n, removed |-> 0])
    /\ hist' = [hist EXCEPT !.inserted = @ \cup {i}]
    /\ hostSteps' = hostSteps + 1
    /\ hostFrame

\* the host removes leaf container i
HostRemove(i) ==
    /\ hostMay
    /\ dom[i].present
    /\ dom' = [dom EXCEPT ![i] = AbsentItem]
    /\ pending' = Append(pending, [added |-> 0, removed |-> 1])
    /\ hist' = [hist EXCEPT !.inserted = @ \ {i}, !.retitled = @ \ {i},
                            !.written = @ \ {i}]
    /\ hostSteps' = hostSteps + 1
    /\ hostFrame

\* the host rewrites the title text of leaf container i: by replacing the
\* children of the title element (a childList record), or by changing the data
\* of its text node (no record for an observer of childList alone)
HostRetitle(i, tx, childList) ==
    /\ hostMay
    /\ dom[i].present /\ dom[i].hasTitle
    /\ tx # dom[i].text
    /\ childList \/ (tx # txtEmpty /\ dom[i].text # txtEmpty)
    /\ dom' = [dom EXCEPT ![i].text = tx]
    /\ pending' = IF childList
                  THEN Append(pending, [added |-> IF tx = txtEmpty THEN 0 ELSE 1,
                                        removed |-> IF dom[i].text = txtEmpty THEN 0 ELSE 1])
                  ELSE pending
    /\ hostSteps' = hostSteps + 1
    /\ hist' = [hist EXCEPT
                  !.retitled = IF /\ i \notin hist.inserted
                                  /\ dom[i].text # txtEmpty
                                  /\ ~containsSpoiler(dom[i].text)
                                  /\ ~(dom[i].text = Sentinel /\ overlayWithin(dom, i))
                               THEN @ \cup {i} ELSE @,
                  !.written = @ \ {i},
                  !.rewritten = TRUE]
    /\ hostFrame

\* the host changes the computed position of the thumbnail of leaf container i
\* (a style or class change: no record for an observer of childList alone)
HostRestyle(i, ps) ==
    /\ hostMay
    /\ dom[i].present /\ dom[i].hasThumb
    /\ ps # dom[i].position
    /\ dom' = [dom EXCEPT ![i].position = ps]
    /\ hostSteps' = hostSteps + 1
    /\ UNCHANGED <<pending, hist>>
    /\ hostFrame

Next ==
    \/ RunScript
    \/ Annotate
    \/ FinishScript
    \/ Return
    \/ Deliver
    \/ TimerFire
    \/ Navigate
    \/ \E i \in Items, shape \in NormalShapes, n \in {1, MaxAdded} : HostInsert(i, shape, n)
    \/ \E i \in Items : HostRemove(i)
    \/ \E i \in Items, tx \in TitlePool, childList \in BOOLEAN : HostRetitle(i, tx, childList)
    \/ \E i \in Items, ps \in Positions : HostRestyle(i, ps)

Spec == Init /\ [][Next]_vars

\* the script's own steps are taken when they can be: a running callback runs
\* on, queued records are delivered, an armed timer fires
FairSpec ==
    /\ Spec
    /\ WF_vars(RunScript) /\ WF_vars(Annotate) /\ WF_vars(FinishScript)
    /\ WF_vars(Return) /\ WF_vars(Deliver) /\ WF_vars(TimerFire)

\* ------------------------------------------------- the matcher on its own
\* the texts and keyword lists containsSpoiler is probed with
Alphabet == {"a", "A", "b"}
textsUpTo(n) == UNION {[1..m -> Alphabet] : m \in 0..n}
ProbeTexts == textsUpTo(MaxTextLen)
ProbeKeywords == textsUpTo(MaxKeywordLen) \ {<<>>}
ProbeKeywordLists ==
    {<<k>> : k \in ProbeKeywords} \cup {<<k1, k2>> : k1 \in ProbeKeywords, k2 \in ProbeKeywords}

MatcherInit ==
    /\ spoilerKeywords \in ProbeKeywordLists
    /\ layout = "flat"
    /\ dom = NoTree
    /\ pc = "idle"
    /\ handler = "none"
    /\ todo = <<>>
    /\ pending = <<>>
    /\ observing = FALSE
    /\ listening = FALSE
    /\ timer = "unset"
    /\ hostSteps = 0
    /\ last = NoCall
    /\ atStart = NoTree
    /\ hist = NoHistory
    /\ hostTask = FALSE
    /\ probe = NoProbe

\* containsSpoiler(text) is called
Match(text) ==
    /\ ~probe.called
    /\ probe' = [called |-> TRUE, text |-> text, result |-> containsSpoiler(text)]
    /\ UNCHANGED <<spoilerKeywords, layout, dom, pc, handler, todo, pending, observing,
                   listening, timer, hostSteps, last, atStart, hist, hostTask>>

MatcherNext == \E text \in ProbeTexts : Match(text)

MatcherSpec == MatcherInit /\ [][MatcherNext]_vars

\* ------------------------------------------------------------------ claims
\* two characters are the same letter, whatever their case
sameLetter(a, b) ==
    \/ a = b
    \/ \E n \in DOMAIN UpperCase : {a, b} = {UpperCase[n], LowerCase[n]}

\* keyword k is a contiguous substring of text, compared case-insensitively
occursIgnoringCase(k, text) ==
    \E off \in 0..(Len(text) - Len(k)) :
        \A j \in 1..Len(k) : sameLetter(text[off + j], k[j])

\* C7: containsSpoiler(text) is true exactly when some keyword occurs in text as a
\* contiguous substring, compared case-insensitively; it is false for the empty
\* text and true for every keyword itself
C7_MatcherIsCaseInsensitiveSubstring ==
    probe.called =>
        /\ probe.result =
              (\E n \in DOMAIN spoilerKeywords :
                   occursIgnoringCase(spoilerKeywords[n], probe.text))
        /\ (probe.text = <<>> => ~probe.result)
        /\ ((\E n \in DOMAIN spoilerKeywords : spoilerKeywords[n] = probe.text)
               => probe.result)

\* a text is matched by a keyword that occurs in it only when case is ignored
C7_Witness ==
    /\ probe.called
    /\ probe.result
    /\ \A n \in DOMAIN spoilerKeywords : ~includes(probe.text, spoilerKeywords[n])

\* ------------------------------------------------- claims about the script
\* a scan has processed its last element and is about to return
scanComplete == pc = "scan" /\ todo = <<>>

\* the next step is processVideoElement on element e
annotating(e) == pc = "scan" /\ todo # <<>> /\ Head(todo) = e

Elements == Items \cup {Encloser}

\* MaskState masked: the title slot of e holds the sentinel and an overlay
\* exists under the thumbnail slot of e
masked(d, e) ==
    LET t == titleElement(d, e)
        th == thumbnailContainer(d, e)
    IN  /\ t # Null /\ d[t].text = Sentinel
        /\ th # Null /\ d[th].overlays > 0

\* C1: processVideoElement on an element that is already masked returns at the
\* "already processed" test: containsSpoiler is not called, the tree is left as
\* it is (title text, overlays) and no mutation record is queued
C1_MaskedIsSkipped ==
    [][ \A e \in Elements :
          (annotating(e) /\ masked(dom, e)) =>
              /\ last'.branch = "already"
              /\ last'.asked = <<>>
              /\ dom' = dom
              /\ pending' = pending ]_vars

\* a scan met a masked element and returned early on it
C1_Witness ==
    /\ last.branch = "already"
    /\ masked(dom, last.el)
    /\ masked(atStart, last.el)

\* C5: whatever scans and host changes interleave, no thumbnail slot ever holds
\* more than one overlay
C5_AtMostOneOverlay == \A i \in Items : dom[i].overlays <= 1

\* a scan masked an element again whose thumbnail already held its overlay when
\* the scan began: the title was written, the overlay count stayed at one
C5_Witness ==
    /\ last.branch = "masked"
    /\ LET th == thumbnailContainer(dom, last.el)
       IN  th # Null /\ atStart[th].overlays = 1 /\ dom[th].overlays = 1

\* C6: the observer callback, handed a batch, calls processAllVideoElements once
\* if some record of the batch has added nodes, however many records and nodes
\* there are, and not at all if no record has (a batch of removals)
C6_OneScanPerBatch ==
    [][ (pc = "idle" /\ pending # <<>> /\ pending' = <<>>) =>
          IF \E n \in 1..Len(pending) : pending[n].added > 0
          THEN pc' = "scan" /\ handler' = "observer" /\ todo' = enumerate(dom) /\ dom' = dom
          ELSE pc' = "idle" /\ handler' = "none" /\ dom' = dom ]_vars

\* a batch that carried an insertion has just started one scan
C6_Witness ==
    /\ pc = "scan" /\ handler = "observer" /\ last = NoCall
    /\ todo = enumerate(dom)
    /\ hist.inserted # {}

\* a text that is empty or holds nothing but blanks
whitespaceOnly(text) == \A n \in 1..Len(text) : text[n] = " "

\* item i has a title slot and its text matches a keyword, in tree d
matching(d, i) == d[i].present /\ d[i].hasTitle /\ containsSpoiler(d[i].text)

\* C2: processVideoElement on an item with a matching title and no thumbnail
\* slot writes the sentinel into the title and inserts no overlay; on every
\* later scan the item, its title written by the script in an earlier scan, is
\* skipped at the "already processed" test: containsSpoiler is not called on the
\* sentinel and the title is not written again
C2_TitleOnlyItemIsSkipped ==
    [][ \A i \in Items :
          (annotating(i) /\ dom[i].hasTitle /\ ~dom[i].hasThumb) =>
              /\ (/\ i \notin hist.written \cup hist.writing
                  /\ containsSpoiler(dom[i].text)) =>
                    /\ last'.branch = "masked"
                    /\ dom'[i].text = Sentinel
                    /\ \A j \in Items : dom'[j].overlays = dom[j].overlays
              /\ (i \in hist.written) =>
                    /\ last'.branch = "already"
                    /\ last'.asked = <<>>
                    /\ dom' = dom
                    /\ pending' = pending ]_vars

\* C3: the host acts finitely often (MaxHostSteps), so the scans come to an end:
\* from some point on the script is idle for good
C3_NoRunawayRescans == <>[](pc = "idle")

\* C4: when a scan is over, a second scan would leave the tree as it is, and
\* every item that had a matching title and a thumbnail slot when the scan began
\* holds the sentinel and exactly one overlay
C4_ScanAllIdempotentAndMasks ==
    scanComplete =>
        /\ processAllVideoElements(dom) = dom
        /\ \A i \in Items :
              (matching(atStart, i) /\ atStart[i].hasThumb) =>
                  (dom[i].text = Sentinel /\ dom[i].overlays = 1)

\* C8: processVideoElement on an element whose title slot is absent, or holds
\* an empty or whitespace-only text, returns without calling containsSpoiler and
\* leaves the tree as it is
C8_NoTitleIsSkipped ==
    [][ \A e \in Elements :
          (/\ annotating(e)
           /\ LET t == titleElement(dom, e)
              IN  t = Null \/ whitespaceOnly(dom[t].text)) =>
              /\ last'.branch = "no-title"
              /\ last'.asked = <<>>
              /\ dom' = dom ]_vars

\* C9: processVideoElement on an unmasked element whose title no keyword matches
\* leaves the tree as it is; and when the host has rewritten the title of such
\* an item to a matching text, the item is masked when the next scan is over
C9_NoMatchLeavesItemEligible ==
    [][ /\ \A e \in Elements :
              (/\ annotating(e)
               /\ LET t == titleElement(dom, e)
                  IN  /\ t # Null /\ dom[t].text # txtEmpty
                      /\ ~masked(dom, e)
                      /\ ~containsSpoiler(dom[t].text)) =>
                  (dom' = dom /\ pending' = pending)
        /\ scanComplete' =>
              \A i \in hist'.retitled :
                  matching(atStart', i) =>
                      /\ dom'[i].text = Sentinel
                      /\ dom'[i].hasThumb => dom'[i].overlays = 1 ]_vars

\* C10: an item with a matching title and a thumbnail slot that the host has
\* inserted has a scan due (a queued record with an added node), and is masked,
\* with one overlay, when that scan is over
C10_InsertedItemsGetMasked ==
    /\ (pc = "idle" /\ hist.inserted # {}) =>
           \E n \in 1..Len(pending) : pending[n].added > 0
    /\ scanComplete =>
           \A i \in hist.inserted :
               (matching(atStart, i) /\ atStart[i].hasThumb) =>
                   (masked(dom, i) /\ dom[i].overlays = 1)

\* C11: the timer is armed once, by the script at startup, and by no scan; the
\* scan of the timer callback starts only by the armed timer firing, which
\* disarms it for good and starts the scan whatever the state of the tree; and
\* in every execution the armed timer does fire
C11_TimerFiresExactlyOnce ==
    /\ [][ /\ (timer' # timer) =>
                 \/ timer = "unset" /\ timer' = "armed" /\ handler = "script"
                 \/ /\ timer = "armed" /\ timer' = "fired"
                    /\ pc' = "scan" /\ handler' = "timer" /\ todo' = enumerate(dom)
           /\ (handler' = "timer" /\ handler # "timer") =>
                 (timer = "armed" /\ timer' = "fired") ]_vars
    /\ <>(timer = "fired")

\* the outcomes of a call of processVideoElement
Outcomes == {"no-title", "already", "no-match", "masked"}

\* the elements of sequence s
Range(s) == {s[n] : n \in DOMAIN s}

\* C12: a scan enumerates every container of the tree once, whatever its
\* category; each call of processVideoElement ends with one of the four
\* outcomes and the scan goes on with the elements enumerated after it; when the
\* scan is over, processVideoElement was called on every container the tree held
\* when it began (on none, for a tree with no container)
C12_ScanNeverAborts ==
    [][ /\ \A e \in Elements :
              annotating(e) =>
                  /\ pc' = "scan"
                  /\ todo' = Tail(todo)
                  /\ last'.el = e
                  /\ last'.branch \in Outcomes
                  /\ hist'.done = hist.done \cup {e}
        /\ (pc' = "scan" /\ pc # "scan") =>
              /\ Range(todo') = {e \in Elements : inTree(dom', e)}
              /\ Len(todo') = Cardinality(Range(todo'))
              /\ hist'.done = {}
        /\ scanComplete' =>
              hist'.done = {e \in Elements : inTree(atStart', e)} ]_vars

\* a scan is over that skipped an item without a title slot and then masked the
\* item enumerated after it
C12_Witness ==
    /\ scanComplete
    /\ layout = "flat"
    /\ hist.done = Items
    /\ ~dom[1].hasTitle
    /\ last.el = 2
    /\ last.branch = "masked"

\* sequence s begins with sequence p
startsWith(s, p) == Len(s) >= Len(p) /\ SubSeq(s, 1, Len(p)) = p

\* C13: a scan starts only when no scan is running; while it runs, the only
\* steps are its own calls of processVideoElement, in the order of its
\* enumeration: no host event, no timer, no other callback, no delivery of
\* records; it ends only when its enumeration is exhausted, and the records it
\* queued are still undelivered when it ends
C13_ScansNeverOverlap ==
    [][ /\ (pc = "scan" /\ pc' = "scan") =>
              /\ todo # <<>> /\ todo' = Tail(todo)
              /\ handler' = handler /\ atStart' = atStart
              /\ hostSteps' = hostSteps /\ timer' = timer
              /\ startsWith(pending', pending)
              /\ \A i \in Items :
                    /\ dom'[i].present = dom[i].present
                    /\ dom'[i].hasTitle = dom[i].hasTitle
                    /\ dom'[i].hasThumb = dom[i].hasThumb
        /\ (pc = "scan" /\ pc' # "scan") =>
              /\ todo = <<>> /\ pc' = "idle" /\ handler' = "none"
              /\ dom' = dom /\ pending' = pending /\ hostSteps' = hostSteps
        /\ (pc # "scan" /\ pc' = "scan") =>
              /\ handler = "none" /\ handler' # "none"
              /\ todo' = enumerate(dom) /\ dom' = dom
        /\ (hostSteps' # hostSteps) => pc = "idle" ]_vars

\* the scan of the observer callback has masked an element and queued records
\* for it, and runs on with the elements left while the timer is armed
C13_Witness ==
    /\ pc = "scan" /\ handler = "observer"
    /\ todo # <<>>
    /\ last.branch = "masked"
    /\ pending # <<>>
    /\ timer = "armed"

\* C14: as long as the host has rewritten no title, an overlay lies under the
\* thumbnail slot of an item only if the title slot of that same item holds the
\* sentinel, whatever container encloses the items
C14_OverlayOnlyUnderSentinelTitle ==
    ~hist.rewritten =>
        \A i \in Items :
            dom[i].overlays > 0 => (dom[i].hasTitle /\ dom[i].text = Sentinel)

\* C15: no call of processVideoElement removes an overlay, and the only text a
\* call writes into a title is the sentinel; an item in the tree keeps its
\* overlay in every step, so that an item whose title the host has rewritten to
\* a text no keyword matches still carries its overlay when a later scan is over
C15_MaskingIsMonotone ==
    [][ /\ (pc = "scan") =>
              \A i \in Items :
                  /\ dom'[i].overlays >= dom[i].overlays
                  /\ (dom'[i].text # dom[i].text) => dom'[i].text = Sentinel
        /\ \A i \in Items :
              (dom[i].present /\ dom'[i].present) => dom'[i].overlays >= dom[i].overlays
        /\ scanComplete' =>
              \A i \in Items :
                  (atStart'[i].overlays > 0 /\ ~containsSpoiler(atStart'[i].text)) =>
                      /\ dom'[i].overlays = atStart'[i].overlays
                      /\ dom'[i].text = atStart'[i].text ]_vars

\* a scan is over that ran on an item carrying an overlay whose title the host
\* had rewritten to a text no keyword matches: the overlay is still there
C15_Witness ==
    /\ scanComplete
    /\ hist.rewritten
    /\ \E i \in Items :
          /\ i \in hist.done
          /\ atStart[i].overlays = 1 /\ atStart[i].text = txtCat
          /\ dom[i].overlays = 1 /\ dom[i].text = txtCat

\* C16: a scan starts in a step if and only if the step is one of four events,
\* no two of which fall into one step: the load of the script, the armed timer
\* firing, a navigation event, the delivery of a batch with an added node; each
\* starts one scan, from the callback of its own trigger (hence the number of
\* scans is the number of these events); and while the script is loading and
\* running its first scan there is no subscription, no listener and no timer
C16_OneScanPerTrigger ==
    [][ LET started == pc # "scan" /\ pc' = "scan"
            initial == pc = "load" /\ pc' # "load"
            delayed == timer = "armed" /\ timer' = "fired"
            navigated == hostSteps' # hostSteps /\ dom' = dom
            batch == /\ pending # <<>> /\ pending' = <<>>
                     /\ \E n \in 1..Len(pending) : pending[n].added > 0
        IN  /\ started <=> (initial \/ delayed \/ navigated \/ batch)
            /\ ~(initial /\ delayed) /\ ~(initial /\ navigated) /\ ~(initial /\ batch)
            /\ ~(delayed /\ navigated) /\ ~(delayed /\ batch) /\ ~(navigated /\ batch)
            /\ started => (todo' = enumerate(dom) /\ dom' = dom /\ hist'.done = {})
            /\ initial => handler' = "script"
            /\ delayed => handler' = "timer"
            /\ navigated => handler' = "nav"
            /\ batch => handler' = "observer"
            /\ (pc = "load" \/ handler = "script") =>
                  (~observing /\ ~listening /\ timer = "unset") ]_vars

\* the scan of a navigation event has just started, after the first scan and
\* the scan of the timer
C16_Witness ==
    /\ pc = "scan" /\ handler = "nav" /\ last = NoCall
    /\ todo = enumerate(dom) /\ todo # <<>>
    /\ hist.done = {}
    /\ timer = "fired"

====
